---- MODULE Spec2Model ----
(***************************************************************************)
(* Model of the LARS AI backend (src/back.py): the /subscribe endpoint,    *)
(* the subscription file, send_email, the weekly job send_weekly_updates   *)
(* run by the background scheduler, the /generate endpoint and             *)
(* fetch_recent_trends.                                                    *)
(*                                                                         *)
(* Spec is the service with its /subscribe handlers and the weekly job;    *)
(* GenerateSpec is the /generate endpoint; FetchSpec is one call of        *)
(* fetch_recent_trends for each answer of the news provider; FairSpec is   *)
(* the weekly job with a worker thread that keeps running.                 *)
(*                                                                         *)
(* Text is a sequence of one-character strings.  The character "^" stands  *)
(* for a lone surrogate (JSON "\ud800"): json.loads/json.dump carry it,    *)
(* MIMEText cannot encode it.                                              *)
(***************************************************************************)
EXTENDS Integers, Sequences, FiniteSets, TLC

\* ---------------------------------------------------------------- bounds
\* Number of requests the clients make to an endpoint.
MaxReq == 2
\* Worker threads of the scheduler's pool that the model keeps.
PoolSize == 2

\* ------------------------------------------------------- program constants
\* As many running instances as the pool has workers.
MaxInstancesPool == PoolSize
\* add_job(send_weekly_updates, "interval", weeks=1): max_instances is left
\* at the scheduler's default of one running instance per job.
MaxInstances == 1
\* One pass more than range(2).
MaxAttemptsThree == 2 + 1
\* for attempt in range(2)
MaxAttempts == 2

Req == 1..MaxReq
Inst == (MaxReq + 1)..(MaxReq + PoolSize)
Proc == Req \cup Inst

\* ------------------------------------------------------------------ text
Absent == <<"absent-key">>
Space == " "
Surrogate == "^"

RECURSIVE LStrip(_)
LStrip(s) == IF s # <<>> /\ Head(s) = Space THEN LStrip(Tail(s)) ELSE s

RECURSIVE RStrip(_)
RStrip(s) ==
  IF s # <<>> /\ s[Len(s)] = Space THEN RStrip(SubSeq(s, 1, Len(s) - 1)) ELSE s

\* The text as it is, spaces kept.
StripNothing(s) == s

\* str.strip()
Strip(s) == RStrip(LStrip(s))

\* data.get(key, "")
Get(data, key) == IF data[key] = Absent THEN <<>> ELSE data[key]

\* str.encode("utf-8") fails on a lone surrogate
Encodable(s) == \A i \in 1..Len(s) : s[i] # Surrogate

\* ------------------------------------------------- the subscription file
\* A subscription as subscribe builds it (new_sub).
Sub(e, p, d, r) == [email |-> e, phone |-> p, domain |-> d, role |-> r]

Quote == "'"
Quoted(s) == <<Quote>> \o s \o <<Quote>>

\* One object of the JSON text; the four keys are written in the order
\* email, phone, domain, role.
DumpSub(s) ==
  <<"{">> \o Quoted(s.email) \o <<",">> \o Quoted(s.phone) \o <<",">>
          \o Quoted(s.domain) \o <<",">> \o Quoted(s.role) \o <<"}">>

RECURSIVE DumpItems(_)
DumpItems(subs) ==
  IF subs = <<>> THEN <<>>
  ELSE IF Len(subs) = 1 THEN DumpSub(subs[1])
  ELSE DumpSub(subs[1]) \o <<",">> \o DumpItems(Tail(subs))

\* json.dump(subs, f, indent=4): the text of the whole list
Dump(subs) == <<"[">> \o DumpItems(subs) \o <<"]">>

Fail == [ok |-> FALSE, val |-> <<>>, next |-> 0]

At(t, i, c) == i >= 1 /\ i <= Len(t) /\ t[i] = c

\* The place of the first quote of t from t[i] on, 0 if there is none.
RECURSIVE FindQuote(_, _)
FindQuote(t, i) ==
  IF i > Len(t) THEN 0
  ELSE IF t[i] = Quote THEN i
  ELSE FindQuote(t, i + 1)

\* A quoted string starting at t[i].
ParseString(t, i) ==
  IF ~At(t, i, Quote) THEN Fail
  ELSE LET j == FindQuote(t, i + 1)
       IN IF j = 0 THEN Fail
          ELSE [ok |-> TRUE, val |-> SubSeq(t, i + 1, j - 1), next |-> j + 1]

\* An object starting at t[i].
ParseSub(t, i) ==
  IF ~At(t, i, "{") THEN Fail
  ELSE LET e == ParseString(t, i + 1)
       IN IF ~e.ok \/ ~At(t, e.next, ",") THEN Fail
          ELSE LET p == ParseString(t, e.next + 1)
               IN IF ~p.ok \/ ~At(t, p.next, ",") THEN Fail
                  ELSE LET d == ParseString(t, p.next + 1)
                       IN IF ~d.ok \/ ~At(t, d.next, ",") THEN Fail
                          ELSE LET r == ParseString(t, d.next + 1)
                               IN IF ~r.ok \/ ~At(t, r.next, "}") THEN Fail
                                  ELSE [ok |-> TRUE,
                                        val |-> Sub(e.val, p.val, d.val, r.val),
                                        next |-> r.next + 1]

\* The objects of a list from t[i] on, up to the closing bracket, which
\* must be the last character of the text.
RECURSIVE ParseItems(_, _, _)
ParseItems(t, i, acc) ==
  LET s == ParseSub(t, i)
  IN IF ~s.ok THEN Fail
     ELSE IF At(t, s.next, "]")
          THEN IF s.next = Len(t)
               THEN [ok |-> TRUE, val |-> Append(acc, s.val), next |-> s.next + 1]
               ELSE Fail
          ELSE IF At(t, s.next, ",")
               THEN ParseItems(t, s.next + 1, Append(acc, s.val))
               ELSE Fail

\* json.load(f): ok is FALSE where json.load raises JSONDecodeError
Load(t) ==
  IF ~At(t, 1, "[") THEN Fail
  ELSE IF At(t, 2, "]")
       THEN IF Len(t) = 2 THEN [ok |-> TRUE, val |-> <<>>, next |-> 3] ELSE Fail
       ELSE ParseItems(t, 2, <<>>)

\* A file that does not exist, and files holding a text.
NoFile == [exists |-> FALSE, text |-> <<>>]
FileOf(t) == [exists |-> TRUE, text |-> t]

\* A text that is not JSON (a store damaged outside the program).
Garbage == <<"[", "{", Quote>>

\* ------------------------------------------------------------------ state
VARIABLES
  file,      \* subscriptions.json (SUBSCRIPTIONS_FILE)
  loop,      \* the request whose handler runs on the event loop, 0 if none
  awaiting,  \* how many /subscribe handlers are suspended awaiting their body
  req,       \* the /subscribe handlers that resumed: position and locals
  job,       \* the scheduler's worker threads running send_weekly_updates
  mail,      \* the send_email call of each caller: position and locals
  appended,  \* history: the records whose save completed, in order
  store0,    \* history: the file as it was when the process started
  gens,      \* the /generate handlers: position and locals
  fetch      \* a fetch_recent_trends call: the provider's answer and the result

vars == <<file, loop, awaiting, req, job, mail, appended, store0, gens, fetch>>

\* JSON bodies the clients post to /subscribe: a missing key, a blank field,
\* fields to be trimmed, a phone without an email, an empty domain or role,
\* and a domain that cannot be encoded.
Body(e, p, d, r) == [email |-> e, phone |-> p, domain |-> d, role |-> r]
Payloads ==
  { Body(<<Space>>, Absent, <<"d">>, <<Space, "r">>),
    Body(<<Space>>, <<"7">>, Absent, <<>>),
    Body(<<"a", Space>>, Absent, <<"d">>, <<Space, "r">>),
    Body(<<"a", Space>>, Absent, <<Surrogate>>, <<Space, "r">>),
    Body(<<"a", Space>>, <<"7">>, <<"d">>, <<>>) }

NoData == [email |-> Absent, phone |-> Absent, domain |-> Absent, role |-> Absent]
NoSub == Sub(<<>>, <<>>, <<>>, <<>>)

NoResp == [key |-> "none", text |-> "none"]
Resp(k, t) == [key |-> k, text |-> t]

ReqInit ==
  [pc |-> "new", data |-> NoData, new_sub |-> NoSub, subs |-> <<>>,
   resp |-> NoResp, appends |-> 0, sends |-> 0, loaded |-> "none"]

MailOff == [pc |-> "off", attempt |-> 0, outs |-> <<>>, slept |-> 0]

\* ------------------------------------------------------------- send_email
\* msg.attach(MIMEText(html_content, "html")): raises on text that cannot be
\* encoded.  These lines are outside the try of the retry loop.
SendEmailComposes(html_content) == Encodable(html_content)

\* The frame of a call whose message is built: the retry loop starts.
MailStart == [pc |-> "try", attempt |-> 0, outs |-> <<>>, slept |-> 0]

\* One pass through the try block: the SMTP session succeeds or raises.
SendEmailAttempt(p) ==
  /\ mail[p].pc = "try"
  /\ \E ok \in BOOLEAN :
       mail' = [mail EXCEPT ![p].outs = Append(@, ok),
                            ![p].pc = IF ok THEN "true" ELSE "sleep"]
  /\ UNCHANGED <<awaiting, file, loop, req, job, appended, store0, gens, fetch>>

\* except: time.sleep(3), then the next pass of the for loop, or return False
\* when range(2) is used up.
SendEmailSleep(p) ==
  /\ mail[p].pc = "sleep"
  /\ mail' = [mail EXCEPT ![p].slept = @ + 1,
                          ![p].attempt = @ + 1,
                          ![p].pc = IF mail[p].attempt + 1 < MaxAttempts
                                    THEN "try" ELSE "false"]
  /\ UNCHANGED <<awaiting, file, loop, req, job, appended, store0, gens, fetch>>

Returned(p) == mail[p].pc \in {"true", "false"}

\* ------------------------------------------------------ POST /subscribe
\* The handler is a coroutine with one await, request.json(), at its top:
\* from there to its return it runs on the event loop without yielding, so
\* it resumes only when no other handler is running.
ResumesAnyTime(r) == TRUE
Resumes(r) == loop = 0

\* A client posts to /subscribe: a handler starts and suspends at
\* data = await request.json().
SubscribeReceive ==
  /\ awaiting + Cardinality({r \in Req : req[r].pc # "new"}) < MaxReq
  /\ awaiting' = awaiting + 1
  /\ UNCHANGED <<file, loop, req, job, mail, appended, store0, gens, fetch>>

\* The fields are tested as they came, before they are trimmed.
SubscribeValidateUntrimmed(r) ==
  /\ req[r].pc = "new"
  /\ \A q \in Req : q < r => req[q].pc # "new"
  /\ awaiting > 0
  /\ Resumes(r)
  /\ awaiting' = awaiting - 1
  /\ \E data \in Payloads :
       LET email == Strip(Get(data, "email"))
           phone == Strip(Get(data, "phone"))
           domain == Strip(Get(data, "domain"))
           role == Strip(Get(data, "role"))
       IN IF Get(data, "email") = <<>> /\ Get(data, "phone") = <<>>
          THEN /\ req' = [req EXCEPT ![r].pc = "responded", ![r].data = data,
                                     ![r].resp = Resp("error", "need email or phone")]
               /\ loop' = 0
          ELSE /\ req' = [req EXCEPT ![r].pc = "load", ![r].data = data,
                                     ![r].new_sub = Sub(email, phone, domain, role)]
               /\ loop' = r
  /\ UNCHANGED <<file, job, mail, appended, store0, gens, fetch>>

\* A suspended handler resumes with the body (handlers are numbered in the
\* order they resume).  The four fields are trimmed; nothing is kept when
\* email and phone are both empty.
SubscribeValidate(r) ==
  /\ req[r].pc = "new"
  /\ \A q \in Req : q < r => req[q].pc # "new"
  /\ awaiting > 0
  /\ Resumes(r)
  /\ awaiting' = awaiting - 1
  /\ \E data \in Payloads :
       LET email == Strip(Get(data, "email"))
           phone == Strip(Get(data, "phone"))
           domain == Strip(Get(data, "domain"))
           role == Strip(Get(data, "role"))
       IN IF email = <<>> /\ phone = <<>>
          THEN /\ req' = [req EXCEPT ![r].pc = "responded", ![r].data = data,
                                     ![r].resp = Resp("error", "need email or phone")]
               /\ loop' = 0
          ELSE /\ req' = [req EXCEPT ![r].pc = "load", ![r].data = data,
                                     ![r].new_sub = Sub(email, phone, domain, role)]
               /\ loop' = r
  /\ UNCHANGED <<file, job, mail, appended, store0, gens, fetch>>

\* new_sub is put in front of the list.
PrependSub(subs, new_sub) == <<new_sub>> \o subs
\* subs.append(new_sub)
AppendSub(subs, new_sub) == Append(subs, new_sub)

\* A text that is not JSON is taken for an empty list.
SubscribeLoadLenient(r) ==
  /\ req[r].pc = "load"
  /\ LET loaded == IF file.exists THEN Load(file.text)
                   ELSE [ok |-> TRUE, val |-> <<>>, next |-> 0]
     IN req' = [req EXCEPT ![r].pc = "open",
                           ![r].subs = AppendSub(loaded.val, req[r].new_sub),
                           ![r].loaded = "ok"]
  /\ UNCHANGED <<awaiting, file, loop, job, mail, appended, store0, gens, fetch>>

\* subs = [] or json.load of the file, then subs.append(new_sub).  A text
\* that is not JSON raises, and the handler's except returns an error.
SubscribeLoad(r) ==
  /\ req[r].pc = "load"
  /\ LET loaded == IF file.exists THEN Load(file.text)
                   ELSE [ok |-> TRUE, val |-> <<>>, next |-> 0]
     IN IF loaded.ok
        THEN /\ req' = [req EXCEPT ![r].pc = "open",
                                   ![r].subs = AppendSub(loaded.val, req[r].new_sub),
                                   ![r].loaded = "ok"]
             /\ loop' = loop
        ELSE /\ req' = [req EXCEPT ![r].pc = "responded",
                                   ![r].loaded = "raised",
                                   ![r].resp = Resp("error", "subscription failed")]
             /\ loop' = 0
  /\ UNCHANGED <<awaiting, file, job, mail, appended, store0, gens, fetch>>

\* open(SUBSCRIPTIONS_FILE, "w") creates the file or truncates it.
SubscribeOpen(r) ==
  /\ req[r].pc = "open"
  /\ file' = FileOf(<<>>)
  /\ req' = [req EXCEPT ![r].pc = "dump"]
  /\ UNCHANGED <<awaiting, loop, job, mail, appended, store0, gens, fetch>>

\* Only the new record is written.
SubscribeDumpNewOnly(r) ==
  /\ req[r].pc = "dump"
  /\ file' = FileOf(Dump(<<req[r].new_sub>>))
  /\ appended' = Append(appended, req[r].new_sub)
  /\ req' = [req EXCEPT ![r].pc = "confirm", ![r].appends = @ + 1, ![r].subs = <<>>]
  /\ UNCHANGED <<awaiting, loop, job, mail, store0, gens, fetch>>

\* json.dump(subs, f, indent=4) and the close of the file.
SubscribeDump(r) ==
  /\ req[r].pc = "dump"
  /\ file' = FileOf(Dump(req[r].subs))
  /\ appended' = Append(appended, req[r].new_sub)
  /\ req' = [req EXCEPT ![r].pc = "confirm", ![r].appends = @ + 1, ![r].subs = <<>>]
  /\ UNCHANGED <<awaiting, loop, job, mail, store0, gens, fetch>>

\* if email:
WantsConfirmationAlways(sub) == TRUE
WantsConfirmation(sub) == sub.email # <<>>

\* if email: the confirmation is composed and send_email is called;
\* otherwise the handler returns at once.
SubscribeConfirm(r) ==
  /\ req[r].pc = "confirm"
  /\ LET sub == req[r].new_sub
         html_content == sub.domain \o sub.role
     IN IF ~WantsConfirmation(sub)
        THEN /\ req' = [req EXCEPT ![r].pc = "responded",
                                   ![r].resp = Resp("message", "no email provided")]
             /\ loop' = 0
             /\ mail' = mail
        ELSE IF SendEmailComposes(html_content)
             THEN /\ req' = [req EXCEPT ![r].pc = "in_send", ![r].sends = @ + 1]
                  /\ loop' = loop
                  /\ mail' = [mail EXCEPT ![r] = MailStart]
             ELSE /\ req' = [req EXCEPT ![r].pc = "responded", ![r].sends = @ + 1,
                                        ![r].resp = Resp("error", "subscription failed")]
                  /\ loop' = 0
                  /\ mail' = mail
  /\ UNCHANGED <<awaiting, file, job, appended, store0, gens, fetch>>

\* success = send_email(...): either message is returned, never an error.
SubscribeReply(r) ==
  /\ req[r].pc = "in_send"
  /\ Returned(r)
  /\ req' = [req EXCEPT ![r].pc = "responded",
                        ![r].resp = IF mail[r].pc = "true"
                                    THEN Resp("message", "confirmation sent")
                                    ELSE Resp("message", "saved, email failed")]
  /\ mail' = [mail EXCEPT ![r] = MailOff]
  /\ loop' = 0
  /\ UNCHANGED <<awaiting, file, job, appended, store0, gens, fetch>>

\* The response has been delivered to the client.
SubscribeClose(r) ==
  /\ req[r].pc = "responded"
  /\ req' = [req EXCEPT ![r] = [ReqInit EXCEPT !.pc = "closed"]]
  /\ UNCHANGED <<awaiting, file, loop, job, mail, appended, store0, gens, fetch>>

\* ----------------------------------------------------- fetch_recent_trends
\* What the news provider does for one query.
FetchOutcomes == {"articles", "no articles", "failure"}

\* The string the call returns: the bullet list, the fixed string for an
\* empty result, or the error text of the except branch.
FetchRecentTrends(outcome) ==
  CASE outcome = "articles" -> <<"-">>
    [] outcome = "no articles" -> <<"N", "o">>
    [] outcome = "failure" -> <<"E", "r", "r">>

\* ------------------------------------------ fetch_recent_trends, in full
\* How many words a title of the provider's articles has at most.
MaxWords == 2

\* A JSON null.
Null == <<"null-value">>

\* str.lower(), on the capital letters the titles use.
LowerChar(c) ==
  CASE c = "D" -> "d"
    [] c = "E" -> "e"
    [] c = "L" -> "l"
    [] c = "S" -> "s"
    [] c = "T" -> "t"
    [] c = "U" -> "u"
    [] c = "V" -> "v"
    [] c = "Y" -> "y"
    [] OTHER -> c
Lower(t) == [i \in 1..Len(t) |-> LowerChar(t[i])]

\* k in t
Contains(t, k) ==
  \E i \in 1..(Len(t) - Len(k) + 1) : SubSeq(t, i, i + Len(k) - 1) = k

\* The four keyword lists, in the order of the if/elif chain.
StudyWords ==
  { <<"s", "t", "u", "d", "y">>,
    <<"r", "e", "s", "e", "a", "r", "c", "h">>,
    <<"p", "a", "p", "e", "r">>,
    <<"r", "e", "p", "o", "r", "t">> }
LaunchWords ==
  { <<"l", "a", "u", "n", "c", "h">>,
    <<"r", "e", "l", "e", "a", "s", "e", "d">>,
    <<"i", "n", "t", "r", "o", "d", "u", "c", "e", "d">>,
    <<"a", "p", "p", "r", "o", "v", "e", "d">> }
TrendingWords ==
  { <<"t", "r", "e", "n", "d", "i", "n", "g">>,
    <<"v", "i", "r", "a", "l">>,
    <<"p", "o", "p", "u", "l", "a", "r">>,
    <<"#">> }
EventWords ==
  { <<"c", "o", "n", "f", "e", "r", "e", "n", "c", "e">>,
    <<"w", "e", "b", "i", "n", "a", "r">>,
    <<"w", "o", "r", "k", "s", "h", "o", "p">>,
    <<"s", "u", "m", "m", "i", "t">>,
    <<"e", "v", "e", "n", "t">> }

\* The launch list is tried before the study list.
ClassifyLaunchFirst(title) ==
  LET title_lower == Lower(title)
  IN IF \E k \in LaunchWords : Contains(title_lower, k) THEN "launch"
     ELSE IF \E k \in StudyWords : Contains(title_lower, k) THEN "study"
     ELSE IF \E k \in TrendingWords : Contains(title_lower, k) THEN "trending"
     ELSE IF \E k \in EventWords : Contains(title_lower, k) THEN "event"
     ELSE "generic"

\* The branch of the if/elif chain a title takes.
Classify(title) ==
  LET title_lower == Lower(title)
  IN IF \E k \in StudyWords : Contains(title_lower, k) THEN "study"
     ELSE IF \E k \in LaunchWords : Contains(title_lower, k) THEN "launch"
     ELSE IF \E k \in TrendingWords : Contains(title_lower, k) THEN "trending"
     ELSE IF \E k \in EventWords : Contains(title_lower, k) THEN "event"
     ELSE "generic"

\* Words of the titles: the keywords, keywords with capital letters, words
\* that hold a keyword inside them, and words that hold none.
Words ==
  StudyWords \cup LaunchWords \cup TrendingWords \cup EventWords \cup
  { <<"S", "t", "u", "d", "y">>,
    <<"S", "T", "U", "D", "Y">>,
    <<"L", "a", "u", "n", "c", "h">>,
    <<"V", "i", "r", "a", "l">>,
    <<"E", "v", "e", "n", "t">>,
    <<"p", "r", "e", "v", "e", "n", "t">>,
    <<"n", "e", "w", "s", "p", "a", "p", "e", "r">>,
    <<"n", "e", "w", "s">>,
    <<"s", "e", "v", "e", "n", "t", "y">> }

\* The titles of at most n words.
RECURSIVE TitlesOf(_)
TitlesOf(n) ==
  IF n = 1 THEN Words
  ELSE LET shorter == TitlesOf(n - 1)
       IN shorter \cup {t \o <<Space>> \o w : t \in shorter, w \in Words}
Titles == TitlesOf(MaxWords)

\* One article of the provider's answer: a key holds a text, is missing
\* (Absent) or holds null.  source stands for the name in the source object.
Article(t, s, p) == [title |-> t, source |-> s, publishedAt |-> p]

Digits == {"0", "1", "2", "3", "4", "5", "6", "7", "8", "9"}
DigitVal(c) ==
  CASE c = "0" -> 0 [] c = "1" -> 1 [] c = "2" -> 2 [] c = "3" -> 3
    [] c = "4" -> 4 [] c = "5" -> 5 [] c = "6" -> 6 [] c = "7" -> 7
    [] c = "8" -> 8 [] c = "9" -> 9

\* datetime.strptime(published_at[:10], "%Y-%m-%d") does not raise.  (It
\* also takes months and days of one digit and refuses the 31st of a short
\* month; the dates supplied below have neither.)
IsDate(published_at) ==
  /\ Len(published_at) >= 10
  /\ \A i \in {1, 2, 3, 4, 6, 7, 9, 10} : published_at[i] \in Digits
  /\ published_at[5] = "-"
  /\ published_at[8] = "-"
  /\ 10 * DigitVal(published_at[6]) + DigitVal(published_at[7]) \in 1..12
  /\ 10 * DigitVal(published_at[9]) + DigitVal(published_at[10]) \in 1..31

\* .strftime("%B %Y"): the month and the year of the date.
MonthYear(published_at) ==
  SubSeq(published_at, 6, 7) \o <<Space>> \o SubSeq(published_at, 1, 4)

\* The exception one pass of the for loop raises, "none" if it raises none:
\* .get("name") on a null source, [:10] on a null date, strptime on a text
\* that is not a date, .lower() on a null title.
ArticleError(article) ==
  IF article.source = Null THEN "AttributeError"
  ELSE IF article.publishedAt = Null THEN "TypeError"
  ELSE IF ~IsDate(Get(article, "publishedAt")) THEN "ValueError"
  ELSE IF article.title = Null THEN "AttributeError"
  ELSE "none"

\* The entry appended to insights for one article: the template of its
\* branch and the values the template prints.
Insight(article) ==
  LET title == Get(article, "title")
      source == Get(article, "source")
      published_month_year == MonthYear(article.publishedAt)
      template == Classify(title)
  IN [template |-> template,
      title |-> title,
      source |-> IF template \in {"study", "launch", "generic"} THEN source ELSE <<>>,
      month |-> IF template = "trending" THEN <<>> ELSE published_month_year]

\* insights.append(f"Insights as of {current_time}:\n")
Header == [template |-> "header", title |-> <<>>, source |-> <<>>, month |-> <<>>]

\* for article in articles_data: the entries, or the first exception.
RECURSIVE Insights(_)
Insights(articles) ==
  IF articles = <<>> THEN [error |-> "none", val |-> <<>>]
  ELSE LET e == ArticleError(Head(articles))
       IN IF e # "none" THEN [error |-> e, val |-> <<>>]
          ELSE LET rest == Insights(Tail(articles))
               IN IF rest.error # "none" THEN rest
                  ELSE [error |-> "none",
                        val |-> <<Insight(Head(articles))>> \o rest.val]

\* What newsapi.get_everything does: it raises (no connection, a status
\* that is not ok, a body that is not JSON) or returns the answer.
ProviderFailures == {"ConnectionError", "NewsAPIException", "JSONDecodeError"}
Failure(e) == [kind |-> "failure", error |-> e, articles |-> <<>>]
Response(articles) == [kind |-> "response", error |-> "none", articles |-> articles]

\* What a call does: it returns a string (the joined insights, "No recent
\* news found." or "Error fetching trends: {e}") or it raises.
NoResult == [raised |-> FALSE, kind |-> "none", insights |-> <<>>, error |-> "none"]
Joined(insights) == [NoResult EXCEPT !.kind = "insights", !.insights = insights]
NoNews == [NoResult EXCEPT !.kind = "no news"]
ErrorFetching(e) == [NoResult EXCEPT !.kind = "error", !.error = e]
Raised(e) == [NoResult EXCEPT !.raised = TRUE, !.error = e]

\* The try covers the request only: an exception of the for loop leaves
\* the function.
fetch_recent_trends_loop_outside_try(domain, role, provider) ==
  IF provider.kind = "failure" THEN ErrorFetching(provider.error)
  ELSE IF provider.articles = <<>> THEN NoNews
  ELSE LET made == Insights(provider.articles)
       IN IF made.error # "none" THEN Raised(made.error)
          ELSE Joined(<<Header>> \o made.val)

\* fetch_recent_trends(domain, role): the request, the for loop and the two
\* returns are inside the try, and except Exception returns the error text.
fetch_recent_trends(domain, role, provider) ==
  IF provider.kind = "failure" THEN ErrorFetching(provider.error)
  ELSE IF provider.articles = <<>> THEN NoNews
  ELSE LET made == Insights(provider.articles)
       IN IF made.error # "none" THEN ErrorFetching(made.error)
          ELSE Joined(<<Header>> \o made.val)

\* The answers the provider gives: a failure, no article, one well-formed
\* article with any of the titles, and one or two articles with a missing,
\* null or malformed title, source or date.
GoodSource == <<"B", "B", "C">>
GoodDate == <<"2", "0", "2", "5", "-", "0", "1", "-", "0", "2", "T">>
OddDates ==
  { Absent, Null, <<"J", "a", "n">>,
    <<"2", "0", "2", "5", "-", "0", "1">>,
    <<"2", "0", "2", "5", "-", "1", "3", "-", "0", "2", "T">> }
OddArticles ==
  { Article(t, s, p) : t \in {Absent, Null, <<"n", "e", "w", "s">>},
                       s \in {GoodSource, Absent, Null},
                       p \in {GoodDate} \cup OddDates }
GoodArticle == Article(<<"s", "t", "u", "d", "y">>, GoodSource, GoodDate)
Providers ==
  {Failure(e) : e \in ProviderFailures}
  \cup {Response(<<>>)}
  \cup {Response(<<Article(t, GoodSource, GoodDate)>>) : t \in Titles}
  \cup {Response(<<a>>) : a \in OddArticles}
  \cup {Response(<<GoodArticle, a>>) : a \in OddArticles}

\* The call and its caller: send_weekly_updates and /generate put the
\* returned string into the prompt.
NoPrompt == [role |-> <<>>, domain |-> <<>>, recent_trends |-> NoResult]
FetchIdle ==
  [pc |-> "idle", domain |-> <<>>, role |-> <<>>, provider |-> Response(<<>>),
   result |-> NoResult, prompt |-> NoPrompt]

\* recent_trends = fetch_recent_trends(domain, role)
FetchCall ==
  /\ fetch.pc = "call"
  /\ LET result == fetch_recent_trends(fetch.domain, fetch.role, fetch.provider)
     IN fetch' = [fetch EXCEPT !.result = result,
                               !.pc = IF result.raised THEN "raised" ELSE "returned"]
  /\ UNCHANGED <<awaiting, file, loop, req, job, mail, appended, store0, gens>>

\* prompt = textwrap.dedent(f"""... ({recent_trends}) ...""")
FetchPrompt ==
  /\ fetch.pc = "returned"
  /\ fetch' = [fetch EXCEPT !.pc = "prompt",
                            !.prompt = [role |-> fetch.role, domain |-> fetch.domain,
                                        recent_trends |-> fetch.result]]
  /\ UNCHANGED <<awaiting, file, loop, req, job, mail, appended, store0, gens>>

\* ------------------------------------------- generate_response_with_ollama
\* What subprocess.run does: the process exits with a code, its output and
\* its error output (decoded with errors="replace", so always encodable),
\* or the call raises.
Stdouts == {<<>>, <<Space, "x", Space>>}
Stderrs == {<<>>, <<"e", Space>>}
ProcOutcomes ==
  [kind : {"exit"}, code : {0, 1}, stdout : Stdouts, stderr : Stderrs]
  \cup [kind : {"timeout", "not found", "other"}, code : {0},
        stdout : {<<>>}, stderr : {<<>>}]

TimeoutWarning == <<"T", "i", "m", "e", "o", "u", "t">>
NotFoundError == <<"N", "o", "t", "F", "o", "u", "n", "d">>
UnexpectedError == <<"U", "n", "e", "x", "p", "e", "c", "t", "e", "d">>

NoOutcome == [kind |-> "none", code |-> 0, stdout |-> <<>>, stderr |-> <<>>]

\* The return code is not looked at: the output is returned whatever it is.
GenerateResponseAnyCode(o) ==
  CASE o.kind = "exit" -> Strip(o.stdout)
    [] o.kind = "timeout" -> TimeoutWarning
    [] o.kind = "not found" -> NotFoundError
    [] o.kind = "other" -> UnexpectedError

\* The string the call returns: "" for a non-zero return code, the trimmed
\* output for 0, and one string for each except branch.
GenerateResponse(o) ==
  CASE o.kind = "exit" /\ o.code # 0 -> <<>>
    [] o.kind = "exit" /\ o.code = 0 -> Strip(o.stdout)
    [] o.kind = "timeout" -> TimeoutWarning
    [] o.kind = "not found" -> NotFoundError
    [] o.kind = "other" -> UnexpectedError

\* ---------------------------------------------------- send_weekly_updates
JobInit ==
  [pc |-> "idle", subs |-> <<>>, idx |-> 0, trends |-> <<>>,
   gen |-> NoOutcome, report |-> <<>>, log |-> <<>>, end |-> "none"]

\* if not email or not domain or not role: continue
Eligible(sub) == sub.email # <<>> /\ sub.domain # <<>> /\ sub.role # <<>>

Running == {w \in Inst : job[w].pc # "idle"}

\* The interval has elapsed: the scheduler submits the job to a free worker
\* unless the job already has its maximum number of running instances.
SchedulerFire(w) ==
  /\ job[w].pc = "idle"
  /\ \A v \in Inst : v < w => job[v].pc # "idle"
  /\ Cardinality(Running) < MaxInstances
  /\ job' = [job EXCEPT ![w] = [JobInit EXCEPT !.pc = "exists"]]
  /\ UNCHANGED <<awaiting, file, loop, req, mail, appended, store0, gens, fetch>>

Return(w, how) == [job EXCEPT ![w].pc = "returned", ![w].end = how]

\* A missing file is created with an empty list before the run returns.
WeeklyExistsCreates(w) ==
  /\ job[w].pc = "exists"
  /\ job' = IF file.exists THEN [job EXCEPT ![w].pc = "load"]
            ELSE Return(w, "no file")
  /\ file' = IF file.exists THEN file ELSE FileOf(Dump(<<>>))
  /\ UNCHANGED <<awaiting, loop, req, mail, appended, store0, gens, fetch>>

\* if not os.path.exists(SUBSCRIPTIONS_FILE): return
WeeklyExists(w) ==
  /\ job[w].pc = "exists"
  /\ job' = IF file.exists THEN [job EXCEPT ![w].pc = "load"]
            ELSE Return(w, "no file")
  /\ UNCHANGED <<awaiting, file, loop, req, mail, appended, store0, gens, fetch>>

\* subs = json.load(f); an empty list returns; a text that is not JSON
\* raises into the except of the function.
WeeklyLoad(w) ==
  /\ job[w].pc = "load"
  /\ LET loaded == Load(file.text)
     IN job' = IF ~loaded.ok THEN Return(w, "error")
               ELSE IF loaded.val = <<>> THEN Return(w, "empty")
               ELSE [job EXCEPT ![w].pc = "loop", ![w].subs = loaded.val,
                                ![w].idx = 1]
  /\ UNCHANGED <<awaiting, file, loop, req, mail, appended, store0, gens, fetch>>

\* for sub in subs: the next subscription, skipped when a field is empty.
WeeklyNext(w) ==
  /\ job[w].pc = "loop"
  /\ LET j == job[w]
     IN job' = IF j.idx > Len(j.subs) THEN Return(w, "complete")
               ELSE IF ~Eligible(j.subs[j.idx])
                    THEN [job EXCEPT ![w].idx = @ + 1]
                    ELSE [job EXCEPT ![w].pc = "fetch"]
  /\ UNCHANGED <<awaiting, file, loop, req, mail, appended, store0, gens, fetch>>

\* recent_trends = fetch_recent_trends(domain, role)
WeeklyFetch(w) ==
  /\ job[w].pc = "fetch"
  /\ \E outcome \in FetchOutcomes :
       job' = [job EXCEPT ![w].pc = "generate",
                          ![w].trends = FetchRecentTrends(outcome),
                          ![w].log = Append(@, <<"fetch", job[w].idx>>)]
  /\ UNCHANGED <<awaiting, file, loop, req, mail, appended, store0, gens, fetch>>

\* report = generate_response_with_ollama(prompt)
WeeklyGenerate(w) ==
  /\ job[w].pc = "generate"
  /\ \E o \in ProcOutcomes :
       job' = [job EXCEPT ![w].pc = "send", ![w].trends = <<>>,
                          ![w].gen = o,
                          ![w].report = GenerateResponse(o),
                          ![w].log = Append(@, <<"generate", job[w].idx>>)]
  /\ UNCHANGED <<awaiting, file, loop, req, mail, appended, store0, gens, fetch>>

\* send_email(email, subject, html_content): an exception raised while the
\* message is composed leaves the for loop through the except of the
\* function.
WeeklySend(w) ==
  /\ job[w].pc = "send"
  /\ LET j == job[w]
         sub == j.subs[j.idx]
         html_content == sub.domain \o sub.role \o j.report
         called == [job EXCEPT ![w].log = Append(@, <<"send", j.idx>>),
                               ![w].gen = NoOutcome, ![w].report = <<>>]
     IN IF SendEmailComposes(html_content)
        THEN /\ job' = [called EXCEPT ![w].pc = "in_send"]
             /\ mail' = [mail EXCEPT ![w] = MailStart]
        ELSE /\ job' = [called EXCEPT ![w].pc = "returned", ![w].end = "error"]
             /\ mail' = mail
  /\ UNCHANGED <<awaiting, file, loop, req, appended, store0, gens, fetch>>

\* A False result ends the run.
WeeklySentStopsOnFalse(w) ==
  /\ job[w].pc = "in_send"
  /\ Returned(w)
  /\ job' = IF mail[w].pc = "true"
            THEN [job EXCEPT ![w].pc = "loop", ![w].idx = @ + 1]
            ELSE Return(w, "complete")
  /\ mail' = [mail EXCEPT ![w] = MailOff]
  /\ UNCHANGED <<awaiting, file, loop, req, appended, store0, gens, fetch>>

\* send_email has returned; its result is not used and the loop goes on.
WeeklySent(w) ==
  /\ job[w].pc = "in_send"
  /\ Returned(w)
  /\ job' = [job EXCEPT ![w].pc = "loop", ![w].idx = @ + 1]
  /\ mail' = [mail EXCEPT ![w] = MailOff]
  /\ UNCHANGED <<awaiting, file, loop, req, appended, store0, gens, fetch>>

\* Only a run that went through its whole loop is handed back.
SchedulerDoneIfComplete(w) ==
  /\ job[w].pc = "returned"
  /\ job[w].end \in {"complete", "no file", "empty"}
  /\ job' = [job EXCEPT ![w] = JobInit]
  /\ UNCHANGED <<awaiting, file, loop, req, mail, appended, store0, gens, fetch>>

\* The worker hands the finished run back to the scheduler.
SchedulerDone(w) ==
  /\ job[w].pc = "returned"
  /\ job' = [job EXCEPT ![w] = JobInit]
  /\ UNCHANGED <<awaiting, file, loop, req, mail, appended, store0, gens, fetch>>

\* ------------------------------------------------------- POST /generate
\* JSON bodies the clients post to /generate: no field at all, a blank or a
\* missing domain, a blank or a missing role, and two full bodies.
GenBody(d, r) == [domain |-> d, role |-> r]
GenPayloads ==
  { GenBody(Absent, Absent),
    GenBody(<<Space>>, <<"r">>),
    GenBody(Absent, <<"r">>),
    GenBody(<<"d">>, <<Space, Space>>),
    GenBody(<<"d">>, Absent),
    GenBody(<<Space, "d">>, <<"r", Space>>),
    GenBody(<<"e">>, <<"r">>) }

\* "Please provide both 'domain' and 'role'."
ProvideBoth ==
  <<"P", "l", "e", "a", "s", "e", " ", "p", "r", "o", "v", "i", "d", "e",
    " ", "b", "o", "t", "h", " ", "'", "d", "o", "m", "a", "i", "n", "'",
    " ", "a", "n", "d", " ", "'", "r", "o", "l", "e", "'", ".">>

GenNoResp == [key |-> "none", text |-> <<>>]

GenInit ==
  [pc |-> "new", data |-> GenBody(Absent, Absent), domain |-> <<>>,
   role |-> <<>>, trends |-> <<>>, resp |-> GenNoResp, log |-> <<>>]

\* The error is returned only when both fields are empty.
GenerateValidateBothEmpty(g) ==
  /\ gens[g].pc = "new"
  /\ \A q \in Req : q < g => gens[q].pc # "new"
  /\ loop = 0
  /\ \E data \in GenPayloads :
       LET domain == Strip(Get(data, "domain"))
           role == Strip(Get(data, "role"))
       IN IF domain = <<>> /\ role = <<>>
          THEN /\ gens' = [gens EXCEPT ![g].pc = "responded", ![g].data = data,
                                       ![g].resp = Resp("error", ProvideBoth)]
               /\ loop' = 0
          ELSE /\ gens' = [gens EXCEPT ![g].pc = "fetch", ![g].data = data,
                                       ![g].domain = domain, ![g].role = role]
               /\ loop' = g
  /\ UNCHANGED <<awaiting, file, req, job, mail, appended, store0, fetch>>

\* A /generate handler resumes from data = await request.json() when the
\* event loop is free (handlers are numbered in the order they resume; loop
\* holds the number of the handler that runs).  domain and role are trimmed;
\* if not domain or not role: the error is returned.
GenerateValidate(g) ==
  /\ gens[g].pc = "new"
  /\ \A q \in Req : q < g => gens[q].pc # "new"
  /\ loop = 0
  /\ \E data \in GenPayloads :
       LET domain == Strip(Get(data, "domain"))
           role == Strip(Get(data, "role"))
       IN IF domain = <<>> \/ role = <<>>
          THEN /\ gens' = [gens EXCEPT ![g].pc = "responded", ![g].data = data,
                                       ![g].resp = Resp("error", ProvideBoth)]
               /\ loop' = 0
          ELSE /\ gens' = [gens EXCEPT ![g].pc = "fetch", ![g].data = data,
                                       ![g].domain = domain, ![g].role = role]
               /\ loop' = g
  /\ UNCHANGED <<awaiting, file, req, job, mail, appended, store0, fetch>>

\* recent_trends = fetch_recent_trends(domain, role)
GenerateFetch(g) ==
  /\ gens[g].pc = "fetch"
  /\ \E outcome \in FetchOutcomes :
       gens' = [gens EXCEPT ![g].pc = "generate",
                            ![g].trends = FetchRecentTrends(outcome),
                            ![g].log = Append(@, "fetch")]
  /\ UNCHANGED <<awaiting, file, loop, req, job, mail, appended, store0, fetch>>

\* report = generate_response_with_ollama(prompt); return {"output": report}
GenerateReport(g) ==
  /\ gens[g].pc = "generate"
  /\ \E o \in ProcOutcomes :
       gens' = [gens EXCEPT ![g].pc = "responded", ![g].trends = <<>>,
                            ![g].resp = Resp("output", GenerateResponse(o)),
                            ![g].log = Append(@, "generate")]
  /\ loop' = 0
  /\ UNCHANGED <<awaiting, file, req, job, mail, appended, store0, fetch>>

\* The response has been delivered to the client.
GenerateClose(g) ==
  /\ gens[g].pc = "responded"
  /\ gens' = [gens EXCEPT ![g] = [GenInit EXCEPT !.pc = "closed"]]
  /\ UNCHANGED <<awaiting, file, loop, req, job, mail, appended, store0, fetch>>

\* ---------------------------------------------------------- specification
\* Lists an earlier run of the service may have left in the file: none, or
\* one subscriber who gave a phone and no email.
StartStores == {<<>>, <<Sub(<<>>, <<"7">>, <<"d">>, <<>>)>>}

\* The process starts with no file, with a list saved earlier, or with a
\* damaged file.
Init ==
  /\ file \in {NoFile, FileOf(Garbage)} \cup {FileOf(Dump(subs)) : subs \in StartStores}
  /\ store0 = file
  /\ loop = 0
  /\ awaiting = 0
  /\ req = [r \in Req |-> ReqInit]
  /\ job = [w \in Inst |-> JobInit]
  /\ mail = [p \in Proc |-> MailOff]
  /\ appended = <<>>
  /\ gens = [g \in Req |-> GenInit]
  /\ fetch = FetchIdle

Next ==
  \/ SubscribeReceive
  \/ \E r \in Req :
       \/ SubscribeValidate(r)
       \/ SubscribeLoad(r)
       \/ SubscribeOpen(r)
       \/ SubscribeDump(r)
       \/ SubscribeConfirm(r)
       \/ SubscribeReply(r)
       \/ SubscribeClose(r)
  \/ \E w \in Inst :
       \/ SchedulerFire(w)
       \/ WeeklyExists(w)
       \/ WeeklyLoad(w)
       \/ WeeklyNext(w)
       \/ WeeklyFetch(w)
       \/ WeeklyGenerate(w)
       \/ WeeklySend(w)
       \/ WeeklySent(w)
       \/ SchedulerDone(w)
  \/ \E p \in Proc :
       \/ SendEmailAttempt(p)
       \/ SendEmailSleep(p)

Spec == Init /\ [][Next]_vars

\* The weekly job on its own, against every store the requests can leave.
\* Records a request can have saved: an eligible one, one with a phone and
\* no email, and an eligible one whose domain cannot be encoded.
SavedRecords ==
  { Sub(<<"a">>, <<>>, <<"d">>, <<"r">>),
    Sub(<<>>, <<"7">>, <<"d">>, <<>>),
    Sub(<<"a">>, <<>>, <<Surrogate>>, <<"r">>) }

\* The lists of at most n saved records.
RECURSIVE ListsOf(_)
ListsOf(n) ==
  IF n = 0 THEN {<<>>}
  ELSE LET shorter == ListsOf(n - 1)
       IN shorter \cup {Append(subs, sub) : subs \in shorter, sub \in SavedRecords}

\* What the file can be: missing, damaged, just truncated by a handler, or
\* holding the list of as many records as requests were made.
Stores ==
  {NoFile, FileOf(Garbage), FileOf(<<>>)}
  \cup {FileOf(Dump(subs)) : subs \in ListsOf(MaxReq)}

\* A /subscribe handler seen from the weekly job: its open(..., "w") leaves
\* the file empty, its json.dump leaves a list in it.  The change is taken
\* where a run can see it: a run reads the file in its first two steps and
\* not again once it holds its snapshot.
StoreChanges ==
  /\ \A w \in Inst : job[w].pc \in {"idle", "exists", "load"}
  /\ file' \in Stores \ {NoFile, FileOf(Garbage)}
  /\ file' # file
  /\ UNCHANGED <<awaiting, loop, req, job, mail, appended, store0, gens, fetch>>

WeeklyInit ==
  /\ file \in Stores
  /\ store0 = file
  /\ loop = 0
  /\ awaiting = 0
  /\ req = [r \in Req |-> ReqInit]
  /\ job = [w \in Inst |-> JobInit]
  /\ mail = [p \in Proc |-> MailOff]
  /\ appended = <<>>
  /\ gens = [g \in Req |-> GenInit]
  /\ fetch = FetchIdle

\* A step of the run of worker w, or of the send_email call it is in.
WeeklyStep(w) ==
  \/ WeeklyExists(w)
  \/ WeeklyNext(w)
  \/ WeeklyFetch(w)
  \/ WeeklyGenerate(w)
  \/ WeeklySend(w)
  \/ SendEmailAttempt(w)
  \/ SendEmailSleep(w)
  \/ WeeklySent(w)
  \/ SchedulerDone(w)

WeeklyJobNext ==
  \/ StoreChanges
  \/ \E w \in Inst :
       \/ SchedulerFire(w)
       \/ WeeklyLoad(w)
       \/ WeeklyStep(w)

\* The thread of a worker keeps running: a step of its run is taken when
\* it stays possible.  Every external call returns or times out (the SMTP
\* session has timeout=20, subprocess.run has timeout=180), so each step
\* ends.  The same holds of the load of the file, which returns or raises:
\* WeeklyLoad(w) is possible exactly when the run is at its load and always
\* moves it on, so its weak fairness is written on the position of the
\* run.  Nothing is assumed of the scheduler's timer or of the requests.
LoadEnds(w) == []<>(job[w].pc # "load")

FairSpec ==
  /\ WeeklyInit
  /\ [][WeeklyJobNext]_vars
  /\ \A w \in Inst : WF_vars(WeeklyStep(w)) /\ LoadEnds(w)

\* The /generate endpoint.  Its handlers share nothing with /subscribe and
\* the weekly job but the event loop.
GenerateNext ==
  \E g \in Req :
    \/ GenerateValidate(g)
    \/ GenerateFetch(g)
    \/ GenerateReport(g)
    \/ GenerateClose(g)

GenerateSpec == Init /\ [][GenerateNext]_vars

\* One call of fetch_recent_trends for each answer of the provider.
FetchInit ==
  /\ file = NoFile
  /\ store0 = file
  /\ loop = 0
  /\ awaiting = 0
  /\ req = [r \in Req |-> ReqInit]
  /\ job = [w \in Inst |-> JobInit]
  /\ mail = [p \in Proc |-> MailOff]
  /\ appended = <<>>
  /\ gens = [g \in Req |-> GenInit]
  /\ \E provider \in Providers :
       fetch = [FetchIdle EXCEPT !.pc = "call", !.domain = <<"d">>,
                                 !.role = <<"r">>, !.provider = provider]

FetchNext == FetchCall \/ FetchPrompt

FetchSpec == FetchInit /\ [][FetchNext]_vars

\* ------------------------------------------------------------ properties
Events(w) == {job[w].log[i] : i \in DOMAIN job[w].log}
Calls(w, what, i) ==
  Cardinality({k \in DOMAIN job[w].log : job[w].log[k] = <<what, i>>})

\* Subscription i of the run's snapshot got its fetch, its generation and
\* its send_email call.
Attempted(w, i) ==
  {<<"fetch", i>>, <<"generate", i>>, <<"send", i>>} \subseteq Events(w)
Untouched(w, i) ==
  \A what \in {"fetch", "generate", "send"} : <<what, i>> \notin Events(w)

\* No handler is between its resume and its return.
Quiet == \A r \in Req : req[r].pc \in {"new", "responded", "closed"}

\* What a load of the store returns: the empty sequence without a file.
LoadStore == IF file.exists THEN Load(file.text) ELSE [ok |-> TRUE, val |-> <<>>, next |-> 0]

\* C1: when a weekly run has returned, every eligible subscription of its
\* snapshot has had its fetch, generation and send attempt, whatever failed
\* or was raised for the subscriptions before it.
C1_EveryEligibleAttempted ==
  \A w \in Inst :
    job[w].pc = "returned" =>
      \A i \in 1..Len(job[w].subs) :
        Eligible(job[w].subs[i]) => Attempted(w, i)

\* C2: a send_email call makes at most 2 delivery attempts, makes no attempt
\* after a successful one, returns True exactly when its last attempt
\* succeeded, and returns False only after exactly 2 failed attempts.
C2_SendEmailAttempts ==
  \A p \in Proc :
    LET outs == mail[p].outs
        n == Len(outs)
    IN /\ n <= 2
       /\ \A i \in 1..(n - 1) : ~outs[i]
       /\ mail[p].pc = "true" <=> (n >= 1 /\ outs[n])
       /\ mail[p].pc = "false" => (n = 2 /\ ~outs[1] /\ ~outs[2])
       /\ (n = 2 /\ ~outs[2]) => mail[p].pc \in {"sleep", "false"}

\* C2 witness: a transport that failed once and then succeeded gave True
\* after 2 attempts.
C2_Witness == \E p \in Proc : mail[p].pc = "true" /\ mail[p].outs = <<FALSE, TRUE>>

CountIn(seq, x) == Cardinality({i \in DOMAIN seq : seq[i] = x})

\* C3: once no handler is running, every record whose save completed is in
\* the store, as many times as it was saved: no append is lost, whatever the
\* interleaving of the requests with each other and with a weekly run.
C3_NoAppendLost ==
  (Quiet /\ appended # <<>>) =>
    LET stored == LoadStore
    IN /\ stored.ok
       /\ \A k \in DOMAIN appended :
            CountIn(stored.val, appended[k]) >= CountIn(appended, appended[k])

\* C3 witness: a handler has just completed its save while another request
\* is suspended and a weekly run is about to read the file.
C3_Witness ==
  /\ awaiting >= 1
  /\ \E r \in Req : req[r].pc = "confirm" /\ req[r].appends = 1
  /\ \E w \in Inst : job[w].pc = "load"

\* C4: starting without a file, a load returns the empty sequence before
\* any append, and after N requests have saved one after another it returns
\* exactly the N records, in the order they were saved.
C4_LoadReturnsAppendsInOrder ==
  (store0 = NoFile /\ Quiet) =>
    LET stored == LoadStore
    IN stored.ok /\ stored.val = appended

\* C4 witness: two different records were saved, one after the other.
C4_Witness ==
  /\ store0 = NoFile
  /\ Quiet
  /\ Len(appended) = 2
  /\ appended[1] # appended[2]

\* C5: the scheduler is Idle (no run) or Running (one run): two runs of the
\* weekly job are never in progress together.
SchedulerState == IF Running = {} THEN "Idle" ELSE "Running"
C5_AtMostOneRun ==
  /\ Cardinality(Running) <= 1
  /\ SchedulerState = "Running" <=> Cardinality(Running) = 1

\* C5 witness: a run is in the middle of its batch while another worker of
\* the pool is free.
C5_Witness ==
  \E w \in Inst, v \in Inst :
    job[w].pc = "in_send" /\ job[w].idx = 2 /\ job[v].pc = "idle"

\* C6: when a weekly run whose snapshot has a subscription with an empty
\* email, domain or role has returned, no such subscription was fetched,
\* generated or sent for, and every other subscription was processed.
C6_SkippedOnlyAndOthersProcessed ==
  \A w \in Inst :
    (/\ job[w].pc = "returned"
     /\ \E j \in 1..Len(job[w].subs) : ~Eligible(job[w].subs[j]))
    => \A i \in 1..Len(job[w].subs) :
         IF Eligible(job[w].subs[i]) THEN Attempted(w, i) ELSE Untouched(w, i)

\* C7: when send_email has returned False in a weekly run, the next step of
\* the run is the loop at the next subscription, with nothing sent again and
\* the run not ended; no subscription has more than one send_email call in a
\* run; and subscribe answers a False result with a message, not an error.
C7_FalseIsNotFatal ==
  /\ [](\A w \in Inst : \A i \in 1..Len(job[w].subs) : Calls(w, "send", i) <= 1)
  /\ [][\A w \in Inst :
          (job[w].pc = "in_send" /\ mail[w].pc = "false" /\ job'[w] # job[w])
          => /\ job'[w].pc = "loop"
             /\ job'[w].idx = job[w].idx + 1
             /\ job'[w].subs = job[w].subs
             /\ job'[w].log = job[w].log
             /\ job'[w].end = "none"]_vars
  /\ [][\A r \in Req :
          (req[r].pc = "in_send" /\ mail[r].pc = "false" /\ req'[r] # req[r])
          => /\ req'[r].pc = "responded"
             /\ req'[r].resp.key = "message"]_vars

\* C7 witness: send_email has returned False to a weekly run that has a
\* further subscription in its snapshot, and a subscribe request was
\* answered after a failed confirmation.
C7_Witness ==
  /\ \E w \in Inst :
       job[w].pc = "in_send" /\ mail[w].pc = "false" /\ job[w].idx < Len(job[w].subs)
  /\ \E r \in Req : req[r].resp = Resp("message", "saved, email failed")

Spaces(s) == \A i \in 1..Len(s) : s[i] = Space

\* rep is out without its leading and trailing spaces.
IsTrimOf(rep, out) ==
  /\ rep = <<>> \/ (rep[1] # Space /\ rep[Len(rep)] # Space)
  /\ \E a \in 0..Len(out) : \E b \in a..Len(out) :
       /\ rep = SubSeq(out, a + 1, b)
       /\ Spaces(SubSeq(out, 1, a))
       /\ Spaces(SubSeq(out, b + 1, Len(out)))

\* C8: the report of a generation is the trimmed output for exit code 0,
\* the empty string for any other exit code, the fixed non-empty warning for
\* a timeout, the fixed non-empty error for a missing program, a non-empty
\* string for any other failure; so an empty report never comes from a
\* timeout.
C8_GenerateOutcomes ==
  \A w \in Inst :
    LET o == job[w].gen
        rep == job[w].report
    IN o.kind # "none" =>
         /\ (o.kind = "exit" /\ o.code = 0) => IsTrimOf(rep, o.stdout)
         /\ (o.kind = "exit" /\ o.code # 0) => rep = <<>>
         /\ o.kind = "timeout" => (rep = TimeoutWarning /\ rep # <<>>)
         /\ o.kind = "not found" => (rep = NotFoundError /\ rep # <<>>)
         /\ o.kind = "other" => rep # <<>>
         /\ rep = <<>> => o.kind = "exit"

\* C8 witness: the process wrote output and exited with a non-zero code.
C8_Witness ==
  \E w \in Inst :
    /\ job[w].gen.kind = "exit"
    /\ job[w].gen.code # 0
    /\ job[w].gen.stdout # <<>>
    /\ job[w].report = <<>>

\* The file holds a text that is not JSON and no handler is rewriting it.
Damaged ==
  /\ file.exists
  /\ \A r \in Req : req[r].pc # "dump"
  /\ ~Load(file.text).ok

\* C9: a weekly run that loads a text that is not JSON returns at once with
\* no fetch, generation or send; a subscribe request that loads one answers
\* with an error, having saved and sent nothing; a damaged file is never
\* written.
C9_CorruptStoreContained ==
  /\ [](\A r \in Req :
          req[r].loaded = "raised" =>
            /\ req[r].pc = "responded"
            /\ req[r].resp.key = "error"
            /\ req[r].appends = 0
            /\ req[r].sends = 0)
  /\ [][\A w \in Inst :
          (job[w].pc = "load" /\ job'[w] # job[w] /\ ~Load(file.text).ok)
          => /\ job'[w].pc = "returned"
             /\ job'[w].log = <<>>
             /\ mail'[w] = MailOff]_vars
  /\ [][\A r \in Req :
          (req[r].pc = "load" /\ req'[r] # req[r] /\ file.exists /\ ~Load(file.text).ok)
          => req'[r].loaded = "raised"]_vars
  /\ [][file' = file \/ ~Damaged]_vars

\* C9 witness: on a damaged file a weekly run has returned with an error
\* and a subscribe request has been answered with one.
C9_Witness ==
  /\ file = FileOf(Garbage)
  /\ \E w \in Inst : job[w].pc = "returned" /\ job[w].end = "error" /\ job[w].log = <<>>
  /\ \E r \in Req : req[r].loaded = "raised" /\ req[r].resp.key = "error"

\* The request passed the check of email and phone.
Accepted(r) ==
  /\ req[r].pc = "responded"
  /\ req[r].resp # Resp("error", "need email or phone")

\* C10 as stated: every accepted request (here: one whose load of the store
\* did not raise) has appended exactly one record and called send_email
\* exactly once.
C10_OneAppendOneSend ==
  \A r \in Req :
    (Accepted(r) /\ req[r].loaded # "raised") =>
      (req[r].appends = 1 /\ req[r].sends = 1)

\* C10 amended: an accepted request whose load succeeded has appended
\* exactly one record, and has called send_email exactly once if its trimmed
\* email is non-empty and not at all otherwise; one whose load raised has
\* appended nothing and sent nothing.
C10_OneAppendSendIfEmail ==
  \A r \in Req :
    /\ req[r].appends <= 1
    /\ req[r].sends <= 1
    /\ Accepted(r) =>
         IF req[r].loaded = "raised"
         THEN req[r].appends = 0 /\ req[r].sends = 0
         ELSE /\ req[r].appends = 1
              /\ req[r].sends = IF req[r].new_sub.email # <<>> THEN 1 ELSE 0

\* C10 witness: a request with a phone and no email was saved and answered
\* without a send_email call.
C10_Witness ==
  \E r \in Req :
    /\ Accepted(r)
    /\ req[r].new_sub.email = <<>>
    /\ req[r].appends = 1
    /\ req[r].sends = 0

\* The body of the request has neither an email nor a phone once trimmed.
NoContact(data) ==
  Strip(Get(data, "email")) = <<>> /\ Strip(Get(data, "phone")) = <<>>

\* C11: a subscribe request whose email and phone are both missing or blank
\* after trimming is answered with an error as soon as it is handled: it
\* never reads, truncates or writes the store, appends nothing and makes no
\* send_email call.
C11_RejectedTouchesNothing ==
  \A r \in Req :
    (req[r].pc \notin {"new", "closed"} /\ NoContact(req[r].data)) =>
      /\ req[r].pc = "responded"
      /\ req[r].resp = Resp("error", "need email or phone")
      /\ req[r].loaded = "none"
      /\ req[r].subs = <<>>
      /\ req[r].appends = 0
      /\ req[r].sends = 0
      /\ mail[r] = MailOff

\* C11 witness: a request with a blank email and no phone was rejected
\* while the store holds a record saved by an earlier request.
C11_Witness ==
  /\ Len(appended) = 1
  /\ file = FileOf(Dump(appended))
  /\ \E r \in Req :
       /\ req[r].pc = "responded"
       /\ NoContact(req[r].data)
       /\ req[r].resp.key = "error"

\* The body of the request has no domain or no role once trimmed.
Incomplete(data) ==
  Strip(Get(data, "domain")) = <<>> \/ Strip(Get(data, "role")) = <<>>

\* C12: a /generate request whose domain or role is missing or blank after
\* trimming is answered with exactly the error "Please provide both
\* 'domain' and 'role'." and calls neither fetch_recent_trends nor
\* generate_response_with_ollama; a request with both fields reaches both.
C12_IncompleteGetsErrorAndNoCall ==
  \A g \in Req :
    gens[g].pc \notin {"new", "closed"} =>
      IF Incomplete(gens[g].data)
      THEN /\ gens[g].pc = "responded"
           /\ gens[g].resp = Resp("error", ProvideBoth)
           /\ gens[g].log = <<>>
           /\ gens[g].trends = <<>>
      ELSE /\ gens[g].resp # Resp("error", ProvideBoth)
           /\ gens[g].pc = "responded" => gens[g].log = <<"fetch", "generate">>

\* C12 witness: a request with a domain and a blank role was answered with
\* the error after another request got its report.
C12_Witness ==
  \E g \in Req, h \in Req :
    /\ gens[g].pc = "responded"
    /\ Strip(Get(gens[g].data, "domain")) # <<>>
    /\ Strip(Get(gens[g].data, "role")) = <<>>
    /\ Get(gens[g].data, "role") # <<>>
    /\ gens[g].resp.key = "error"
    /\ gens[h].resp.key = "output"

\* The categories in their order of priority, and the keywords of each.
Categories == <<"study", "launch", "trending", "event", "generic">>
KeywordsOf(c) ==
  CASE c = "study" -> StudyWords
    [] c = "launch" -> LaunchWords
    [] c = "trending" -> TrendingWords
    [] c = "event" -> EventWords
    [] c = "generic" -> {}
Rank(c) == CHOOSE i \in DOMAIN Categories : Categories[i] = c

\* Two texts are equal up to the case of their letters.
SameIgnoringCase(s, t) ==
  Len(s) = Len(t) /\ \A i \in 1..Len(s) : LowerChar(s[i]) = LowerChar(t[i])

\* The title has a keyword of the category as a substring, in any case.
Mentions(title, c) ==
  \E k \in KeywordsOf(c) :
    \E i \in 1..(Len(title) - Len(k) + 1) :
      SameIgnoringCase(SubSeq(title, i, i + Len(k) - 1), k)

\* C13: when fetch_recent_trends has returned the joined insights, the
\* entry of every article has the template of the first category, in the
\* order study, launch, trending, event, whose keywords the title mentions
\* (in any case, as substrings), and the generic template when the title
\* mentions none; it carries the title as it was given.
C13_FirstMatchingCategoryWins ==
  (fetch.pc \in {"returned", "prompt"} /\ fetch.result.kind = "insights") =>
    LET articles == fetch.provider.articles
        insights == fetch.result.insights
    IN /\ Len(insights) = Len(articles) + 1
       /\ \A i \in 1..Len(articles) :
            LET title == Get(articles[i], "title")
                template == insights[i + 1].template
            IN /\ template \in {Categories[n] : n \in DOMAIN Categories}
               /\ \A c \in {"study", "launch", "trending", "event"} :
                    Mentions(title, c) => Rank(template) <= Rank(c)
               /\ template # "generic" => Mentions(title, template)
               /\ insights[i + 1].title = title

\* C13 witness: a title that starts with a launch keyword written with a
\* capital and goes on with a study keyword got the study template.
C13_Witness ==
  /\ fetch.pc = "returned"
  /\ fetch.result.kind = "insights"
  /\ LET title == fetch.provider.articles[1].title
     IN /\ Mentions(title, "launch")
        /\ Mentions(title, "study")
        /\ Lower(title) # title
        /\ Contains(Lower(title), <<"l", "a", "u", "n", "c", "h", " ">>)
        /\ fetch.result.insights[2].template = "study"

\* An article of the answer makes the for loop raise.
SomeArticleRaises(provider) ==
  \E i \in DOMAIN provider.articles : ArticleError(provider.articles[i]) # "none"

\* C14: a call of fetch_recent_trends never raises.  Whatever the provider
\* does, it returns a string: the error text naming the exception when the
\* request fails or an article has a null or malformed title, source or
\* date, "No recent news found." for an empty answer, the joined insights
\* otherwise (a missing title or source is printed as empty); and the
\* caller puts the returned string, error text included, into its prompt.
C14_FetchAlwaysReturnsAString ==
  /\ fetch.pc # "raised"
  /\ fetch.pc \in {"returned", "prompt"} =>
       LET provider == fetch.provider
           result == fetch.result
       IN /\ ~result.raised
          /\ result.kind \in {"insights", "no news", "error"}
          /\ provider.kind = "failure" =>
               (result.kind = "error" /\ result.error = provider.error)
          /\ (provider.kind = "response" /\ SomeArticleRaises(provider)) =>
               (result.kind = "error" /\ result.error # "none")
          /\ result.kind = "error" =>
               (provider.kind = "failure" \/ SomeArticleRaises(provider))
  /\ fetch.pc = "prompt" => fetch.prompt.recent_trends = fetch.result

\* C14 witness: the second article of the answer has a null title, and the
\* caller's prompt holds the error text instead of the first article's
\* insight.
C14_Witness ==
  /\ fetch.pc = "prompt"
  /\ Len(fetch.provider.articles) = 2
  /\ fetch.provider.articles[2].title = Null
  /\ ArticleError(fetch.provider.articles[1]) = "none"
  /\ fetch.prompt.recent_trends.kind = "error"
  /\ fetch.prompt.recent_trends.error = "AttributeError"

\* The run of worker w found no file or an empty list.
NothingToDo(w) == job[w].end \in {"no file", "empty"}

\* C15: a weekly run that finds no file, or a file holding the empty list,
\* returns at once: it has made no fetch, no generation and no send_email
\* call, the step that ends it and the step that hands it back leave the
\* file as it is (not created, not written), and the worker is idle again.
C15_NothingToDoIsNoOp ==
  /\ [](\A w \in Inst :
          NothingToDo(w) =>
            /\ job[w].pc = "returned"
            /\ job[w].log = <<>>
            /\ job[w].subs = <<>>
            /\ mail[w] = MailOff)
  /\ [][\A w \in Inst :
          (job[w].pc = "exists" /\ job'[w] # job[w] /\ ~file.exists)
          => (job'[w].end = "no file" /\ file' = file)]_vars
  /\ [][\A w \in Inst :
          (job[w].pc = "load" /\ job'[w] # job[w] /\ file.text = Dump(<<>>))
          => (job'[w].end = "empty" /\ file' = file)]_vars
  /\ [][\A w \in Inst :
          (job[w].pc = "returned" /\ job'[w] # job[w])
          => (job'[w] = JobInit /\ file' = file /\ w \notin Running')]_vars

\* C15 witness: a run has returned on an empty list while the file still
\* holds it and no other run is in progress.
C15_Witness ==
  \E w \in Inst :
    /\ job[w].pc = "returned"
    /\ job[w].end = "empty"
    /\ file = FileOf(Dump(<<>>))
    /\ Running = {w}

\* The calls a run makes for the subscriptions of its snapshot from the
\* i-th on: a fetch, a generation and a send_email call for each eligible
\* one, in the order of the snapshot.
RECURSIVE ExpectedLog(_, _)
ExpectedLog(subs, i) ==
  IF i > Len(subs) THEN <<>>
  ELSE (IF Eligible(subs[i])
        THEN <<<<"fetch", i>>, <<"generate", i>>, <<"send", i>>>>
        ELSE <<>>) \o ExpectedLog(subs, i + 1)

IsPrefix(s, t) == Len(s) <= Len(t) /\ SubSeq(t, 1, Len(s)) = s

\* C16: a weekly run that has returned has made, for the snapshot it loaded
\* at its start, exactly one fetch, one generation and one send_email call
\* for each eligible subscription, in store order, and none for any other.
C16_SnapshotProcessedOnceInOrder ==
  \A w \in Inst :
    (job[w].pc = "returned" /\ job[w].subs # <<>>) =>
      job[w].log = ExpectedLog(job[w].subs, 1)

\* What does hold of the snapshot: a run never writes the file and never
\* reloads its snapshot; at every moment its calls are the first calls of
\* the expected ones, each made once and in store order; and they are all
\* of them when the run returns from the end of its loop.  A run that a
\* raised exception ends (C1) stops short of them.
SnapshotProcessedUnlessRaised ==
  /\ [](\A w \in Inst :
          /\ IsPrefix(job[w].log, ExpectedLog(job[w].subs, 1))
          /\ job[w].end = "complete" => job[w].log = ExpectedLog(job[w].subs, 1))
  /\ [][\A w \in Inst :
          job'[w] # job[w] =>
            /\ file' = file
            /\ (job[w].pc \notin {"load", "returned"} => job'[w].subs = job[w].subs)]_vars

\* C17: the stored sequence only grows at its end.  The file changes only
\* in the two write steps of a subscribe handler; the list a handler is
\* about to write is the stored list it loaded with one record added at
\* the end; between its load and its write nothing else changes the file;
\* and after the write a load returns exactly that list.  So the content
\* after a request has the content before it as a prefix, and a weekly run
\* leaves the content as it is.
C17_StoreOnlyGrowsAtItsEnd ==
  /\ [][file' # file =>
          \E r \in Req : req[r].pc \in {"open", "dump"} /\ req'[r].pc # req[r].pc]_vars
  /\ [][\A r \in Req :
          (req[r].pc = "load" /\ req'[r].pc = "open") =>
            LET before == LoadStore
            IN /\ before.ok
               /\ IsPrefix(before.val, req'[r].subs)
               /\ Len(req'[r].subs) = Len(before.val) + 1]_vars
  /\ [][\A r \in Req :
          (req[r].pc \in {"open", "dump"} /\ req'[r].pc = req[r].pc) =>
            (file' = file /\ req'[r].subs = req[r].subs)]_vars
  /\ [][\A r \in Req :
          (req[r].pc = "dump" /\ req'[r].pc # "dump") =>
            LET after == Load(file'.text)
            IN file'.exists /\ after.ok /\ after.val = req[r].subs]_vars

\* C17 witness: a store that held a record at the start holds it followed
\* by the records of two requests, and a weekly run has gone through it.
C17_Witness ==
  /\ Quiet
  /\ Len(appended) = 2
  /\ store0.exists
  /\ Len(Load(store0.text).val) = 1
  /\ LoadStore.val = Load(store0.text).val \o appended
  /\ \E w \in Inst : job[w].pc = "returned" /\ job[w].end = "complete"

\* The record has an email or a phone that is more than spaces.
HasContact(sub) ==
  \/ \E i \in DOMAIN sub.email : sub.email[i] # Space
  \/ \E i \in DOMAIN sub.phone : sub.phone[i] # Space

\* C18: every record a subscribe handler saves, or holds in the list it is
\* about to write, has a non-empty trimmed email or phone; and when the
\* process started with no file or an empty list, every text written to
\* the file holds only records that have one, so that every record in the
\* file has one in every reachable state.
C18_StoredRecordsHaveContact ==
  /\ [](/\ \A k \in DOMAIN appended : HasContact(appended[k])
        /\ \A r \in Req :
             req[r].subs # <<>> => HasContact(req[r].subs[Len(req[r].subs)]))
  /\ [][(/\ file' # file
          /\ file'.text # <<>>
          /\ store0 \in {NoFile, FileOf(Dump(<<>>))})
         => LET stored == Load(file'.text)
            IN stored.ok /\ \A k \in DOMAIN stored.val : HasContact(stored.val[k])]_vars

\* C18 witness: the file, missing at the start, holds a record with an
\* empty domain and an empty role and a record with an empty role only.
C18_Witness ==
  /\ store0 = NoFile
  /\ \A r \in Req : req[r].pc # "dump"
  /\ LET stored == LoadStore
     IN /\ stored.ok
        /\ \E k \in DOMAIN stored.val :
             stored.val[k].domain = <<>> /\ stored.val[k].role = <<>>
        /\ \E k \in DOMAIN stored.val :
             stored.val[k].domain # <<>> /\ stored.val[k].role = <<>>

\* C19: when a send_email call has returned, it has slept once between
\* each two of its attempts and not after the last: one sleep less than
\* attempts, so once for a call of 2 attempts, and never more than once.
C19_SleepOnlyBetweenAttempts ==
  \A p \in Proc :
    Returned(p) =>
      /\ mail[p].slept = Len(mail[p].outs) - 1
      /\ mail[p].slept <= 1

\* C20: under FairSpec every weekly run that has started returns and is
\* handed back, leaving the scheduler Idle, whatever the fetches, the
\* generations and the deliveries of the run do and whatever the requests
\* do meanwhile.
C20_EveryRunReturnsToIdle ==
  \A w \in Inst :
    (job[w].pc # "idle") ~> (job[w].pc = "idle" /\ SchedulerState = "Idle")

\* C20 witness: a run has gone through a snapshot of two eligible
\* subscriptions and is about to be handed back.
C20_Witness ==
  \E w \in Inst :
    /\ job[w].pc = "returned"
    /\ job[w].end = "complete"
    /\ Len(job[w].subs) = 2
    /\ Len(job[w].log) = 6

\* The json.load of the run of worker w raised: the run has returned
\* through its except with no snapshot.
LoadRaised(w) ==
  job[w].pc = "returned" /\ job[w].end = "error" /\ job[w].subs = <<>>

\* A handler has truncated the file and not yet written its list: every
\* record saved so far was stored before this handler began.
Rewriting == \E r \in Req : req[r].pc = "dump"

\* C21: a weekly run that overlaps a subscribe request's rewrite of the
\* file loads the complete list from before the append or from after it,
\* never an empty file: when the file was not damaged at the start and an
\* eligible record was stored before the rewrite began, the load of a run
\* that returns during the rewrite has not raised.
C21_LoadSeesCompleteStore ==
  \A w \in Inst :
    (/\ store0 # FileOf(Garbage)
     /\ Rewriting
     /\ \E k \in DOMAIN appended : Eligible(appended[k]))
    => ~LoadRaised(w)

====
